---- MODULE Spec2Model ----
(***************************************************************************)
(* A model of create_graph.py: the text entity extractors (regular         *)
(* expressions applied with re.findall under re.IGNORECASE), the graph      *)
(* upserts issued against the Neo4j store, the batch loader and the entry   *)
(* point.  Texts are sequences of one-character strings, so that the        *)
(* regular expressions are matched character by character, as re does.      *)
(***************************************************************************)
EXTENDS Integers, Sequences, FiniteSets, TLC

(***************************************************************************)
(* Characters.                                                             *)
(***************************************************************************)
LowerLetters ==
    <<"a","b","c","d","e","f","g","h","i","j","k","l","m",
      "n","o","p","q","r","s","t","u","v","w","x","y","z">>

UpperLetters ==
    <<"A","B","C","D","E","F","G","H","I","J","K","L","M",
      "N","O","P","Q","R","S","T","U","V","W","X","Y","Z">>

Range(s) == {s[i] : i \in DOMAIN s}

LowerSet == Range(LowerLetters)

UpperSet == Range(UpperLetters)

LetterSet == LowerSet \cup UpperSet

\* The characters a text of the model is made of.
Chars == LetterSet \cup {" ", ":", "."}

\* str.lower() and str.upper() on one character.
ToLower == [c \in Chars |->
             IF c \in UpperSet
             THEN LowerLetters[CHOOSE i \in DOMAIN UpperLetters : UpperLetters[i] = c]
             ELSE c]

ToUpper == [c \in Chars |->
             IF c \in LowerSet
             THEN UpperLetters[CHOOSE i \in DOMAIN LowerLetters : LowerLetters[i] = c]
             ELSE c]

\* text.lower()
LowerText(t) == [i \in DOMAIN t |-> ToLower[t[i]]]

\* str.title(): a cased character is upper-cased when the character before
\* it is not cased, and lower-cased otherwise.
Title(t) ==
    [i \in DOMAIN t |->
        IF t[i] \notin LetterSet THEN t[i]
        ELSE IF i = 1 \/ t[i - 1] \notin LetterSet THEN ToUpper[t[i]]
        ELSE ToLower[t[i]]]

\* str.strip(): leading and trailing whitespace removed.
RECURSIVE Strip(_)
Strip(t) ==
    IF t = <<>> THEN t
    ELSE IF Head(t) = " " THEN Strip(Tail(t))
    ELSE IF t[Len(t)] = " " THEN Strip(SubSeq(t, 1, Len(t) - 1))
    ELSE t

\* ' '.join(parts)
RECURSIVE Join(_)
Join(parts) ==
    IF parts = <<>> THEN <<>>
    ELSE IF Len(parts) = 1 THEN parts[1]
    ELSE parts[1] \o <<" ">> \o Join(Tail(parts))

\* needle in text (substring test)
Contains(t, needle) ==
    \E i \in 1..(Len(t) - Len(needle) + 1) :
        SubSeq(t, i, i + Len(needle) - 1) = needle

(***************************************************************************)
(* Regular expressions, as the re module matches them: a backtracking      *)
(* matcher that lists, in the order re tries them, the ways a pattern can   *)
(* match at a position.  Each pattern of the program has one capturing      *)
(* group; a way of matching is [e |-> the position after the match,         *)
(* g |-> <<first, after>> of the captured span].                            *)
(***************************************************************************)
Lit(s) == [op |-> "lit", s |-> s]

Set(k) == [op |-> "set", k |-> k]

Cat(args) == [op |-> "cat", args |-> args]

Alt(args) == [op |-> "alt", args |-> args]

Star(a) == [op |-> "star", a |-> a]

Plus(a) == [op |-> "cat", args |-> <<a, [op |-> "star", a |-> a]>>]

Opt(a) == [op |-> "alt", args |-> <<a, [op |-> "cat", args |-> <<>>]>>]

Group(a) == [op |-> "grp", a |-> a]

\* Whether character c is in the class k; ic is the re.IGNORECASE flag,
\* under which a class matches a character when it holds either case of it.
InClassCase(k, c) ==
    CASE k = "A-Z"    -> c \in UpperSet
      [] k = "a-zA-Z" -> c \in LetterSet
      [] k = "\\s"    -> c = " "
      [] k = ":\\s"   -> c \in {":", " "}

InClass(k, c, ic) ==
    IF ic THEN InClassCase(k, ToLower[c]) \/ InClassCase(k, ToUpper[c])
    ELSE InClassCase(k, c)

\* Whether the literal s stands at position i of t.
LitAt(s, t, i, ic) ==
    /\ i + Len(s) - 1 <= Len(t)
    /\ \A j \in 1..Len(s) :
          IF ic THEN ToLower[t[i + j - 1]] = ToLower[s[j]]
          ELSE t[i + j - 1] = s[j]

RECURSIVE Ways(_, _, _, _, _), WaysCat(_, _, _, _, _), WaysAlt(_, _, _, _, _),
          WaysEach(_, _, _, _, _), WaysIter(_, _, _, _, _)

\* The ways r matches t at position i, with g the span captured so far.
Ways(r, t, i, g, ic) ==
    CASE r.op = "lit" ->
            IF LitAt(r.s, t, i, ic) THEN <<[e |-> i + Len(r.s), g |-> g]>> ELSE <<>>
      [] r.op = "set" ->
            IF i <= Len(t) /\ InClass(r.k, t[i], ic)
            THEN <<[e |-> i + 1, g |-> g]>> ELSE <<>>
      [] r.op = "cat" -> WaysCat(r.args, t, i, g, ic)
      [] r.op = "alt" -> WaysAlt(r.args, t, i, g, ic)
      [] r.op = "star" ->
            \* greedy: one more iteration first, then none
            WaysIter(Ways(r.a, t, i, g, ic), r, t, i, ic)
                \o <<[e |-> i, g |-> g]>>
      [] r.op = "grp" ->
            LET ws == Ways(r.a, t, i, g, ic)
            IN  [n \in DOMAIN ws |-> [e |-> ws[n].e, g |-> <<i, ws[n].e>>]]

\* The ways the patterns of args match one after the other.
WaysCat(args, t, i, g, ic) ==
    IF args = <<>> THEN <<[e |-> i, g |-> g]>>
    ELSE WaysEach(Ways(Head(args), t, i, g, ic), Tail(args), t, i, ic)

\* The ways one of the alternatives matches, the first alternative first.
WaysAlt(args, t, i, g, ic) ==
    IF args = <<>> THEN <<>>
    ELSE Ways(Head(args), t, i, g, ic) \o WaysAlt(Tail(args), t, i, g, ic)

\* For each way of ws in turn, the ways rest matches after it.
WaysEach(ws, rest, t, i, ic) ==
    IF ws = <<>> THEN <<>>
    ELSE WaysCat(rest, t, Head(ws).e, Head(ws).g, ic)
         \o WaysEach(Tail(ws), rest, t, i, ic)

\* For each way ws of one more iteration of the star r in turn, the ways r
\* goes on after it; an iteration that consumed nothing is not repeated.
WaysIter(ws, r, t, i, ic) ==
    IF ws = <<>> THEN <<>>
    ELSE (IF Head(ws).e = i THEN <<>>
          ELSE Ways(r, t, Head(ws).e, Head(ws).g, ic))
         \o WaysIter(Tail(ws), r, t, i, ic)

\* re.findall(pattern, text, flags) for a pattern with one group: the
\* captured spans of the non-overlapping matches, scanning left to right.
RECURSIVE FindAllFrom(_, _, _, _)
FindAllFrom(r, t, pos, ic) ==
    IF pos > Len(t) THEN <<>>
    ELSE LET ws == Ways(r, t, pos, <<1, 1>>, ic)
         IN  IF ws = <<>> THEN FindAllFrom(r, t, pos + 1, ic)
             ELSE <<SubSeq(t, ws[1].g[1], ws[1].g[2] - 1)>>
                  \o FindAllFrom(r, t, IF ws[1].e = pos THEN pos + 1 ELSE ws[1].e, ic)

\* The flag the program passes to every re.findall call.
IGNORECASE == TRUE

findall(r, t) == FindAllFrom(r, t, 1, IGNORECASE)

(***************************************************************************)
(* The string literals of the program, as character sequences.             *)
(***************************************************************************)
S_Lord == <<"L","o","r","d">>

S_Goddess == <<"G","o","d","d","e","s","s">>

S_Sri == <<"S","r","i">>

S_Shri == <<"S","h","r","i">>

S_Temple == <<"T","e","m","p","l","e">>

S_Swamy == <<"S","w","a","m","y">>

S_Amman == <<"A","m","m","a","n">>

S_dedicated_to == <<"d","e","d","i","c","a","t","e","d"," ","t","o">>

S_deity == <<"d","e","i","t","y">>

S_Shiva == <<"S","h","i","v","a">>

S_Vishnu == <<"V","i","s","h","n","u">>

S_Krishna == <<"K","r","i","s","h","n","a">>

S_Rama == <<"R","a","m","a">>

S_Jagannath == <<"J","a","g","a","n","n","a","t","h">>

S_Venkateswara == <<"V","e","n","k","a","t","e","s","w","a","r","a">>

S_Balaji == <<"B","a","l","a","j","i">>

S_Meenakshi == <<"M","e","e","n","a","k","s","h","i">>

S_Parvati == <<"P","a","r","v","a","t","i">>

S_Lakshmi == <<"L","a","k","s","h","m","i">>

S_Saraswati == <<"S","a","r","a","s","w","a","t","i">>

S_Ganesha == <<"G","a","n","e","s","h","a">>

S_Hanuman == <<"H","a","n","u","m","a","n">>

S_Murugan == <<"M","u","r","u","g","a","n">>

S_Subhadra == <<"S","u","b","h","a","d","r","a">>

S_Balabhadra == <<"B","a","l","a","b","h","a","d","r","a">>

S_Sundareshwara == <<"S","u","n","d","a","r","e","s","h","w","a","r","a">>

S_Purana == <<"P","u","r","a","n","a">>

S_Mahabharata == <<"M","a","h","a","b","h","a","r","a","t","a">>

S_Ramayana == <<"R","a","m","a","y","a","n","a">>

S_Bhagavad_Gita == <<"B","h","a","g","a","v","a","d"," ","G","i","t","a">>

S_Veda == <<"V","e","d","a">>

S_s == <<"s">>

S_Skanda_Purana == <<"S","k","a","n","d","a"," ","P","u","r","a","n","a">>

S_Padma_Purana == <<"P","a","d","m","a"," ","P","u","r","a","n","a">>

S_Varaha_Purana == <<"V","a","r","a","h","a"," ","P","u","r","a","n","a">>

S_Bhagavata_Purana == <<"B","h","a","g","a","v","a","t","a"," ","P","u","r","a","n","a">>

S_Dravidian == <<"D","r","a","v","i","d","i","a","n">>

S_Kalinga == <<"K","a","l","i","n","g","a">>

S_Chola == <<"C","h","o","l","a">>

S_Pallava == <<"P","a","l","l","a","v","a">>

S_Vijayanagara == <<"V","i","j","a","y","a","n","a","g","a","r","a">>

S_festival == <<"f","e","s","t","i","v","a","l">>

S_Brahmotsavam == <<"B","r","a","h","m","o","t","s","a","v","a","m">>

S_Navaratri == <<"N","a","v","a","r","a","t","r","i">>

S_Rath_Yatra == <<"R","a","t","h"," ","Y","a","t","r","a">>

S_Tirukalyanam == <<"T","i","r","u","k","a","l","y","a","n","a","m">>


(***************************************************************************)
(* The text entity extractors.                                             *)
(***************************************************************************)
\* [A-Z][a-zA-Z]+
CapWord == Cat(<<Set("A-Z"), Plus(Set("a-zA-Z"))>>)

\* [A-Z][a-zA-Z]+(?:\s+[A-Z][a-zA-Z]+)*
CapPhrase == Cat(<<CapWord, Star(Cat(<<Plus(Set("\\s")), CapWord>>))>>)

deity_patterns ==
    << Cat(<<Alt(<<Lit(S_Lord), Lit(S_Goddess), Lit(S_Sri), Lit(S_Shri)>>),
             Plus(Set("\\s")), Group(CapPhrase)>>),
       Cat(<<Group(CapPhrase), Plus(Set("\\s")),
             Alt(<<Lit(S_Temple), Lit(S_Swamy), Lit(S_Amman)>>)>>),
       Cat(<<Lit(S_dedicated_to), Plus(Set("\\s")), Group(CapPhrase)>>),
       Cat(<<Lit(S_deity), Plus(Set(":\\s")), Group(CapPhrase)>>) >>

common_deities ==
    << S_Shiva, S_Vishnu, S_Krishna, S_Rama, S_Jagannath, S_Venkateswara,
       S_Balaji, S_Meenakshi, S_Parvati, S_Lakshmi, S_Saraswati, S_Ganesha,
       S_Hanuman, S_Murugan, S_Subhadra, S_Balabhadra, S_Sundareshwara >>

\* The names the patterns contribute: the set deities after the loop over
\* deity_patterns, matches of stripped length at most 2 left out.
PatternDeities(t) ==
    { Title(Strip(m)) :
        m \in { m \in UNION { Range(findall(deity_patterns[p], t)) :
                                 p \in DOMAIN deity_patterns } :
                  Len(Strip(m)) > 2 } }

\* The names of common_deities found in the text, in any case.
CommonDeities(t) ==
    { common_deities[d] : d \in { d \in DOMAIN common_deities :
                                    Contains(LowerText(t), LowerText(common_deities[d])) } }

extract_deities(t) ==
    IF t = <<>> THEN {} ELSE PatternDeities(t) \cup CommonDeities(t)

scripture_patterns ==
    << Cat(<<Group(CapWord), Plus(Set("\\s")), Lit(S_Purana)>>),
       Group(Alt(<<Lit(S_Mahabharata), Lit(S_Ramayana), Lit(S_Bhagavad_Gita),
                   Cat(<<Lit(S_Veda), Opt(Lit(S_s))>>)>>)),
       Group(Alt(<<Lit(S_Skanda_Purana), Lit(S_Padma_Purana), Lit(S_Varaha_Purana), Lit(S_Bhagavata_Purana)>>)) >>

extract_scriptures(t) ==
    IF t = <<>> THEN {}
    ELSE { Title(Strip(m)) :
             m \in UNION { Range(findall(scripture_patterns[p], t)) :
                             p \in DOMAIN scripture_patterns } }

\* The closed vocabulary of extract_architectural_style, in its order.
style_names == << S_Dravidian, S_Kalinga, S_Chola, S_Pallava, S_Vijayanagara >>

RECURSIVE StyleList(_, _)
StyleList(t, k) ==
    IF k > Len(style_names) THEN <<>>
    ELSE (IF Contains(LowerText(t), LowerText(style_names[k]))
          THEN <<style_names[k]>> ELSE <<>>) \o StyleList(t, k + 1)

extract_architectural_style(t) ==
    IF t = <<>> THEN <<>> ELSE StyleList(t, 1)

festival_patterns ==
    << Cat(<<Group(CapPhrase), Plus(Set("\\s")), Lit(S_festival)>>),
       Cat(<<Lit(S_festival), Plus(Set(":\\s")), Group(CapPhrase)>>),
       Group(Alt(<<Lit(S_Brahmotsavam), Lit(S_Navaratri), Lit(S_Rath_Yatra), Lit(S_Tirukalyanam)>>)) >>

extract_festivals(t) ==
    IF t = <<>> THEN {}
    ELSE { Title(Strip(m)) :
             m \in { m \in UNION { Range(findall(festival_patterns[p], t)) :
                                      p \in DOMAIN festival_patterns } :
                       Len(Strip(m)) > 3 } }

(***************************************************************************)
(* The input document.  A JSON value of a temple record is a string or     *)
(* null; a record is a function from the fields it has to their values.    *)
(***************************************************************************)
Str(s) == [t |-> "str", v |-> s]

Null == [t |-> "null"]

\* replace_none on one temple record: null becomes the empty string.
replace_none(rec) ==
    [f \in DOMAIN rec |-> IF rec[f] = Null THEN Str(<<>>) ELSE rec[f]]

\* replace_none on the parsed document: a mapping's temple records are
\* normalised, anything else is returned as it is.
replace_none_doc(doc) ==
    IF doc.kind = "mapping"
    THEN [kind |-> "mapping",
          regions |-> [r \in DOMAIN doc.regions |->
                         [key |-> doc.regions[r].key,
                          temples |-> [i \in DOMAIN doc.regions[r].temples |->
                                         replace_none(doc.regions[r].temples[i])]]]]
    ELSE doc

\* temple_data.get(field, '')
Get(rec, field) == IF field \in DOMAIN rec THEN rec[field].v ELSE <<>>

\* all_text of create_relationships
all_text(rec) ==
    Join(<<Get(rec, "info"), Get(rec, "story"),
           Get(rec, "architecture"), Get(rec, "mention_in_scripture")>>)

(***************************************************************************)
(* The store: nodes with an identity, a label and properties, and edges    *)
(* with a multiplicity.  A Temple node also remembers, for the properties   *)
(* stated below, the position <<region, index>> of the record it was        *)
(* created from.                                                            *)
(***************************************************************************)
EntityLabels == {"State", "Deity", "Scripture", "ArchitecturalStyle", "Festival"}

Labels == {"Temple"} \cup EntityLabels

EmptyGraph == [nodes |-> {}, edges |-> {}]

Max(S) == CHOOSE x \in S : \A y \in S : y <= x

FreshId(g) == IF g.nodes = {} THEN 1 ELSE 1 + Max({n.id : n \in g.nodes})

\* MATCH (n) DETACH DELETE n
clear_database_keeps(g) == g

clear_database(g) == EmptyGraph

\* CREATE (t:Temple {...}) with the seven properties of the record.
TempleProps(rec) ==
    [name |-> Get(rec, "name"), state |-> Get(rec, "state"),
     info |-> Get(rec, "info"), story |-> Get(rec, "story"),
     visiting_guide |-> Get(rec, "visiting_guide"),
     architecture |-> Get(rec, "architecture"),
     scripture_mentions |-> Get(rec, "mention_in_scripture")]

create_temple_node(g, rec, at) ==
    [g EXCEPT !.nodes = @ \cup {[id |-> FreshId(g), label |-> "Temple",
                                 props |-> TempleProps(rec), rec |-> at]}]

\* The uniqueness constraint on Temple.name rejects the CREATE when a
\* Temple node with this name exists.
NameTaken(g, rec) ==
    \E n \in g.nodes : n.label = "Temple" /\ n.props.name = Get(rec, "name")

\* MERGE (x:Label {name: $name}): the nodes matched, one created if none.
CreateNode(g, label, name) ==
    [g EXCEPT !.nodes = @ \cup {[id |-> FreshId(g), label |-> label,
                                 props |-> [name |-> name], rec |-> <<0, 0>>]}]

MergeNode_AlwaysCreates(g, label, name) == CreateNode(g, label, name)

MergeNode(g, label, name) ==
    IF \E n \in g.nodes : n.label = label /\ n.props.name = name
    THEN g
    ELSE CreateNode(g, label, name)

\* MERGE (t)-[:TYPE]->(x) for every row <<t, x>>: an edge is created
\* where there is none.  An edge record carries its multiplicity n.
HasEdge(g, src, type, dst) ==
    \E e \in g.edges : e.src = src /\ e.type = type /\ e.dst = dst

MergeEdges(g, rows, type) ==
    [g EXCEPT !.edges = @ \cup
        {[src |-> r[1], type |-> type, dst |-> r[2], n |-> 1] :
            r \in {r \in rows : ~HasEdge(g, r[1], type, r[2])}}]

\* One statement of create_relationships:
\*   MERGE (x:Label {name: $name}) WITH x
\*   MATCH (t:Temple {name: $temple_name}) MERGE (t)-[:TYPE]->(x)
MergeStatement(g, label, name, type, temple_name) ==
    LET g1 == MergeNode(g, label, name)
        xs == {n.id : n \in {n \in g1.nodes : n.label = label /\ n.props.name = name}}
        ts == {n.id : n \in {n \in g1.nodes : n.label = "Temple"
                                              /\ n.props.name = temple_name}}
    IN  MergeEdges(g1, ts \X xs, type)

\* if state_name:
state_name_always(rec) == TRUE

state_name_present(rec) == Get(rec, "state") # <<>>

\* All orderings of a set: list(set) has no fixed order.
Perms(S) ==
    {p \in [1..Cardinality(S) -> S] : \A i, j \in 1..Cardinality(S) : p[i] = p[j] => i = j}

Tag(names, label, type) ==
    [i \in DOMAIN names |-> [label |-> label, name |-> names[i], type |-> type]]

\* The statements create_relationships issues for a record, in the orders
\* it can issue them.
Statements(rec) ==
    LET t == all_text(rec)
        st == IF state_name_present(rec)
              THEN <<[label |-> "State", name |-> Get(rec, "state"), type |-> "LOCATED_IN"]>>
              ELSE <<>>
    IN  { st \o Tag(d, "Deity", "DEDICATED_TO") \o Tag(sc, "Scripture", "MENTIONED_IN")
             \o Tag(extract_architectural_style(t), "ArchitecturalStyle", "HAS_STYLE")
             \o Tag(f, "Festival", "CELEBRATES") :
          d \in Perms(extract_deities(t)), sc \in Perms(extract_scriptures(t)),
          f \in Perms(extract_festivals(t)) }

(***************************************************************************)
(* Inputs of the model: temple records, documents, input files, stores.    *)
(***************************************************************************)
MaxRecords == 2

MaxRuns == 2

MaxFaults == 1

NumConstraints == 6

NumStatistics == 7

NumSampleQueries == 4

TempleA == <<"T","a">>

TempleB == <<"T","b">>

RegionA == <<"O","a">>

RegionB == <<"O","b">>

\* Temple records: named, with a null name or without one; with a state, a
\* null state, an empty state or none; two of different names that mention
\* the same deity.  A list may hold a record twice: two temples of one name.
RecordVishnuA ==
    [name |-> Str(TempleA), state |-> Str(RegionA),
     info |-> Str(Join(<<S_dedicated_to, S_Vishnu>>))]

RecordVishnuB ==
    [name |-> Str(TempleB), state |-> Null,
     info |-> Str(Join(<<S_Lord, S_Vishnu>>)), architecture |-> Str(S_Chola)]

RecordFestival ==
    [state |-> Str(<<>>), info |-> Str(Join(<<S_Rath_Yatra, S_festival>>))]

RecordScripture ==
    [name |-> Null, mention_in_scripture |-> Str(S_Skanda_Purana)]

RecordMenu == {RecordVishnuA, RecordVishnuB, RecordFestival, RecordScripture}

TempleLists == UNION {[1..n -> RecordMenu] : n \in 0..MaxRecords}

\* Documents: a mapping from region keys to temple lists, or a JSON array.
Documents ==
    {[kind |-> "mapping", regions |-> <<>>]}
    \cup {[kind |-> "mapping", regions |-> <<[key |-> RegionA, temples |-> a]>>] :
            a \in TempleLists}
    \cup {[kind |-> "mapping",
           regions |-> <<[key |-> RegionA, temples |-> ab[1]],
                         [key |-> RegionB, temples |-> ab[2]]>>] :
            ab \in {ab \in TempleLists \X TempleLists :
                      /\ ab[1] # <<>> /\ ab[2] # <<>>
                      /\ Len(ab[1]) + Len(ab[2]) <= MaxRecords}}
    \cup {[kind |-> "list", regions |-> <<>>]}

\* The input file: absent, not JSON, or holding a document.
Files ==
    {[kind |-> "missing"], [kind |-> "malformed"]}
    \cup {[kind |-> "json", doc |-> d] : d \in Documents}

\* What an earlier load can have left in the store.
LeftoverGraph ==
    [nodes |-> {[id |-> 1, label |-> "Temple",
                 props |-> TempleProps([name |-> Str(TempleB)]), rec |-> <<1, 1>>],
                [id |-> 2, label |-> "Deity", props |-> [name |-> S_Shiva],
                 rec |-> <<0, 0>>]},
     edges |-> {[src |-> 1, type |-> "DEDICATED_TO", dst |-> 2, n |-> 1]}]

InitialStores == {EmptyGraph, LeftoverGraph}

\* The constraint the store may reject for good: that of Temple names (a
\* declaration of any of the six may fail for a passing reason, see Fault).
ConflictChoices == {1}

\* The temple records of a document in the order the loops visit them,
\* each with its position <<region, index>>.
RECURSIVE RecordsFrom(_, _)
RecordsFrom(regions, r) ==
    IF r > Len(regions) THEN <<>>
    ELSE [i \in DOMAIN regions[r].temples |->
            [at |-> <<r, i>>, rec |-> regions[r].temples[i]]]
         \o RecordsFrom(regions, r + 1)

Records(doc) == RecordsFrom(doc.regions, 1)

\* For each temple record of the file's document, in order, the statements
\* create_relationships issues for it: a function of the file alone.
StatementsOfFile(f) ==
    IF f.kind = "json"
    THEN LET rs == Records(replace_none_doc(f.doc))
         IN  [i \in DOMAIN rs |-> Statements(rs[i].rec)]
    ELSE <<>>

\* The statistics print_statistics reads: the nodes of each label and the
\* relationships.
RECURSIVE SumN(_)
SumN(E) == IF E = {} THEN 0 ELSE LET e == CHOOSE e \in E : TRUE IN e.n + SumN(E \ {e})

Counts(g) ==
    [nodes |-> [l \in Labels |-> Cardinality({n \in g.nodes : n.label = l})],
     edges |-> SumN(g.edges)]

(***************************************************************************)
(* State.                                                                  *)
(***************************************************************************)
VARIABLES
    file,             \* the input file at data/hindu_temples.json
    conflict,         \* the constraints whose declaration the store rejects
    store,            \* the graph held by the store
    inForce,          \* the uniqueness constraints in force in the store
    pc,               \* the statement the process is at
    data,             \* load_temple_data's parsed and normalised document
    cur,              \* how many temple records the loops have taken
    todo,             \* the statements create_relationships has yet to run
    k,                \* the constraint create_constraints is at
    q,                \* the query print_statistics / run_sample_queries is at
    runs,             \* executions of the entry point so far
    faults,           \* store operations that failed for no lasting reason
    raisedBy,         \* the operation whose exception load_temple_data caught
    constraintFailed, \* a constraint declaration raised in this execution
    attempted,        \* constraint declarations attempted in this execution
    afterFail,        \* store operations issued after load_temple_data failed
    closeCount,       \* calls of close() in this execution
    afterClose,       \* store operations issued after close()
    statements,       \* StatementsOfFile(file), computed once
    store0,           \* the graph when this execution began
    counts,           \* the statistics of the store at each return of the load
    text,             \* the text handed to an extractor
    out               \* what the extractor returned

vars == <<file, conflict, store, inForce, pc, data, cur, todo, k, q, runs, faults,
          raisedBy, constraintFailed, attempted, afterFail, closeCount, afterClose,
          statements, store0, counts, text, out>>

NoData == [kind |-> "none", regions |-> <<>>]

NoOutput == [kind |-> "none", names |-> {}, patterns |-> {}]

Init ==
    /\ file \in Files
    /\ statements = StatementsOfFile(file)
    /\ conflict \in {{}} \cup {{c} : c \in ConflictChoices}
    /\ store \in InitialStores
    /\ inForce = {}
    /\ pc = "main"
    /\ data = NoData
    /\ cur = 0
    /\ todo = <<>>
    /\ k = 1
    /\ q = 1
    /\ runs = 1
    /\ faults = 0
    /\ raisedBy = "none"
    /\ constraintFailed = FALSE
    /\ attempted = 0
    /\ afterFail = 0
    /\ closeCount = 0
    /\ afterClose = 0
    /\ store0 = store
    /\ counts = <<>>
    /\ text = <<>>
    /\ out = NoOutput

(***************************************************************************)
(* The batch loader and the entry point.                                   *)
(***************************************************************************)
\* The statements of load_temple_data's try block, in their order.
load_steps_clear_first == <<"clear", "read", "constraints", "temples", "stats">>

load_steps == <<"read", "clear", "constraints", "temples", "stats">>

\* The step after a step of load_temple_data; "return" after the last.
After(step) ==
    LET i == CHOOSE i \in DOMAIN load_steps : load_steps[i] = step
    IN  IF i = Len(load_steps) THEN "return" ELSE load_steps[i + 1]

\* create_constraints: an exception of a declaration is printed and the
\* loop goes on.
OnConstraintError_Raise == "raise"

OnConstraintError == "continue"

\* main: finally: db.close() runs after the except clause as well.
OnMainError_NoFinally == "done"

OnMainError == "close"

\* A store operation is issued (history).
Issue ==
    /\ afterFail' = IF raisedBy # "none" THEN afterFail + 1 ELSE afterFail
    /\ afterClose' = IF closeCount > 0 THEN afterClose + 1 ELSE afterClose

NoIssue == UNCHANGED <<afterFail, afterClose>>

\* load_temple_data returns to main, which goes on to run_sample_queries.
Return ==
    /\ pc' = "sample_queries"
    /\ q' = 1
    /\ counts' = Append(counts, Counts(store'))

\* load_temple_data goes from a step to the next.
Goto(step) ==
    IF After(step) = "return" THEN Return
    ELSE pc' = After(step) /\ UNCHANGED <<q, counts>>

\* except Exception as e: print(...) in load_temple_data.
LoadExcept(op) ==
    /\ raisedBy' = op
    /\ Return

\* A store operation fails for no lasting reason (the connection).
Fault ==
    /\ faults < MaxFaults
    /\ faults' = faults + 1

Extractors == UNCHANGED <<text, out>>

Inputs == UNCHANGED <<file, conflict, statements>>

\* db = TempleGraphDB(): the driver is built, or the constructor raises
\* and the process ends.
Construct ==
    /\ pc = "main"
    /\ \/ pc' = load_steps[1]
       \/ pc' = "exit"
    /\ UNCHANGED <<store, inForce, data, cur, todo, k, q, runs, faults, raisedBy,
                   constraintFailed, attempted, store0, counts>>
    /\ NoIssue /\ UNCHANGED closeCount /\ Inputs /\ Extractors

\* open, json.load and replace_none.
ReadInput ==
    /\ pc = "read"
    /\ IF file.kind = "json"
       THEN /\ data' = replace_none_doc(file.doc)
            /\ UNCHANGED <<store, raisedBy>>
            /\ Goto("read")
       ELSE /\ UNCHANGED <<store, data>>
            /\ LoadExcept("read")
    /\ UNCHANGED <<inForce, cur, todo, k, runs, faults, constraintFailed, attempted,
                   store0, closeCount>>
    /\ NoIssue /\ Inputs /\ Extractors

ClearDatabase ==
    /\ pc = "clear"
    /\ \/ /\ store' = clear_database(store)
          /\ UNCHANGED <<faults, raisedBy>>
          /\ Goto("clear")
       \/ /\ Fault
          /\ UNCHANGED store
          /\ LoadExcept("clear")
    /\ Issue
    /\ UNCHANGED <<inForce, data, cur, todo, k, runs, constraintFailed, attempted,
                   store0, closeCount>>
    /\ Inputs /\ Extractors

\* The loop of create_constraints goes on to the next declaration.
NextConstraint ==
    /\ UNCHANGED raisedBy
    /\ IF k < NumConstraints
       THEN k' = k + 1 /\ UNCHANGED <<pc, q, counts>>
       ELSE k' = 1 /\ Goto("constraints")

ConstraintExcept ==
    /\ constraintFailed' = TRUE
    /\ IF OnConstraintError = "continue"
       THEN NextConstraint
       ELSE k' = 1 /\ LoadExcept("constraint")

CreateConstraint ==
    /\ pc = "constraints"
    /\ attempted' = attempted + 1
    /\ UNCHANGED store
    /\ \/ /\ k \notin conflict
          /\ inForce' = inForce \cup {k}
          /\ UNCHANGED <<faults, constraintFailed>>
          /\ NextConstraint
       \/ /\ k \in conflict
          /\ UNCHANGED <<inForce, faults>>
          /\ ConstraintExcept
       \/ /\ k \notin conflict
          /\ Fault
          /\ UNCHANGED inForce
          /\ ConstraintExcept
    /\ Issue
    /\ UNCHANGED <<data, cur, todo, runs, store0, closeCount>>
    /\ Inputs /\ Extractors

\* for state, temples in data.items(): for temple in temples:
ForEachTemple ==
    /\ pc = "temples"
    /\ UNCHANGED store
    /\ IF data.kind # "mapping"
       THEN UNCHANGED cur /\ LoadExcept("items")
       ELSE IF cur < Len(Records(data))
       THEN cur' = cur + 1 /\ pc' = "create" /\ UNCHANGED <<q, counts, raisedBy>>
       ELSE UNCHANGED <<cur, raisedBy>> /\ Goto("temples")
    /\ UNCHANGED <<inForce, data, todo, k, runs, faults, constraintFailed, attempted,
                   store0, closeCount>>
    /\ NoIssue /\ Inputs /\ Extractors

\* create_temple_node(temple), and the extraction create_relationships
\* begins with.
CreateTempleNode ==
    /\ pc = "create"
    /\ LET r == Records(data)[cur]
       IN  \/ /\ ~(1 \in inForce /\ NameTaken(store, r.rec))
              /\ store' = create_temple_node(store, r.rec, r.at)
              /\ \E sts \in statements[cur] :
                    /\ todo' = sts
                    /\ pc' = IF sts = <<>> THEN "temples" ELSE "relationships"
              /\ UNCHANGED <<faults, raisedBy, q, counts>>
           \/ /\ 1 \in inForce /\ NameTaken(store, r.rec)
              /\ UNCHANGED <<store, todo, faults>>
              /\ LoadExcept("create")
           \/ /\ Fault
              /\ UNCHANGED <<store, todo>>
              /\ LoadExcept("create")
    /\ Issue
    /\ UNCHANGED <<inForce, data, cur, k, runs, constraintFailed, attempted,
                   store0, closeCount>>
    /\ Inputs /\ Extractors

\* One session.run of create_relationships.
RunStatement ==
    /\ pc = "relationships"
    /\ LET r == Records(data)[cur]
           st == Head(todo)
       IN  \/ /\ store' = MergeStatement(store, st.label, st.name, st.type,
                                         Get(r.rec, "name"))
              /\ todo' = Tail(todo)
              /\ pc' = IF Tail(todo) = <<>> THEN "temples" ELSE "relationships"
              /\ UNCHANGED <<faults, raisedBy, q, counts>>
           \/ /\ Fault
              /\ todo' = <<>>
              /\ UNCHANGED store
              /\ LoadExcept("merge")
    /\ Issue
    /\ UNCHANGED <<inForce, data, cur, k, runs, constraintFailed, attempted,
                   store0, closeCount>>
    /\ Inputs /\ Extractors

\* One count query of print_statistics.
Statistics ==
    /\ pc = "stats"
    /\ UNCHANGED store
    /\ \/ /\ UNCHANGED <<faults, raisedBy>>
          /\ IF q < NumStatistics
             THEN q' = q + 1 /\ UNCHANGED <<pc, counts>>
             ELSE Goto("stats")
       \/ /\ Fault
          /\ LoadExcept("stats")
    /\ Issue
    /\ UNCHANGED <<inForce, data, cur, todo, k, runs, constraintFailed, attempted,
                   store0, closeCount>>
    /\ Inputs /\ Extractors

\* One query of run_sample_queries; an exception is caught by main.
SampleQuery ==
    /\ pc = "sample_queries"
    /\ \/ /\ UNCHANGED faults
          /\ IF q < NumSampleQueries
             THEN q' = q + 1 /\ UNCHANGED pc
             ELSE q' = 1 /\ pc' = "close"
       \/ /\ Fault
          /\ q' = 1
          /\ pc' = OnMainError
    /\ Issue
    /\ UNCHANGED <<store, inForce, data, cur, todo, k, runs, raisedBy,
                   constraintFailed, attempted, store0, counts, closeCount>>
    /\ Inputs /\ Extractors

\* finally: db.close()
Close ==
    /\ pc = "close"
    /\ closeCount' = closeCount + 1
    /\ pc' = "done"
    /\ UNCHANGED <<store, inForce, data, cur, todo, k, q, runs, faults, raisedBy,
                   constraintFailed, attempted, store0, counts>>
    /\ NoIssue /\ Inputs /\ Extractors

\* The entry point is executed again, on the same file and store.
Rerun ==
    /\ pc = "done"
    /\ runs < MaxRuns
    /\ runs' = runs + 1
    /\ pc' = "main"
    /\ data' = NoData
    /\ cur' = 0
    /\ todo' = <<>>
    /\ k' = 1
    /\ q' = 1
    /\ raisedBy' = "none"
    /\ constraintFailed' = FALSE
    /\ attempted' = 0
    /\ afterFail' = 0
    /\ closeCount' = 0
    /\ afterClose' = 0
    /\ store0' = store
    /\ UNCHANGED <<store, inForce, faults, counts>>
    /\ Inputs /\ Extractors

Next ==
    \/ Construct
    \/ ReadInput
    \/ ClearDatabase
    \/ CreateConstraint
    \/ ForEachTemple
    \/ CreateTempleNode
    \/ RunStatement
    \/ Statistics
    \/ SampleQuery
    \/ Close
    \/ Rerun

Spec == Init /\ [][Next]_vars

\* The process is sequential: it takes its next step as long as it has one.
FairSpec == Spec /\ WF_vars(Next)

(***************************************************************************)
(* The extractors on their own: a text is chosen and an extractor applied. *)
(***************************************************************************)
MaxWords == 3

S_the == <<"t","h","e">>

S_old == <<"o","l","d">>

S_a == <<"a">>

Vocabulary ==
    {S_Lord, S_Temple, S_dedicated_to, S_deity, S_Vishnu, S_Purana, S_festival, S_Chola,
     S_the, S_old, S_a}

Texts == {<<>>} \cup {Join(ws) : ws \in UNION {[1..n -> Vocabulary] : n \in 1..MaxWords}}

LoaderIdle ==
    /\ file = [kind |-> "missing"]
    /\ conflict = {}
    /\ store = EmptyGraph
    /\ inForce = {}
    /\ pc = "idle"
    /\ data = NoData
    /\ cur = 0
    /\ todo = <<>>
    /\ k = 1
    /\ q = 1
    /\ runs = 1
    /\ faults = 0
    /\ raisedBy = "none"
    /\ constraintFailed = FALSE
    /\ attempted = 0
    /\ afterFail = 0
    /\ closeCount = 0
    /\ afterClose = 0
    /\ statements = <<>>
    /\ store0 = EmptyGraph
    /\ counts = <<>>

LoaderVars == <<file, conflict, store, inForce, pc, data, cur, todo, k, q, runs, faults,
                raisedBy, constraintFailed, attempted, afterFail, closeCount,
                afterClose, statements, store0, counts>>

InitExtract ==
    /\ LoaderIdle
    /\ text \in Texts
    /\ out = NoOutput

ExtractDeities ==
    /\ out.kind = "none"
    /\ out' = [kind |-> "deities", names |-> extract_deities(text),
               patterns |-> IF text = <<>> THEN {} ELSE PatternDeities(text)]
    /\ UNCHANGED text /\ UNCHANGED LoaderVars

ExtractScriptures ==
    /\ out.kind = "none"
    /\ out' = [kind |-> "scriptures", names |-> extract_scriptures(text), patterns |-> {}]
    /\ UNCHANGED text /\ UNCHANGED LoaderVars

ExtractStyles ==
    /\ out.kind = "none"
    /\ out' = [kind |-> "styles", names |-> Range(extract_architectural_style(text)),
               patterns |-> {}]
    /\ UNCHANGED text /\ UNCHANGED LoaderVars

ExtractFestivals ==
    /\ out.kind = "none"
    /\ out' = [kind |-> "festivals", names |-> extract_festivals(text), patterns |-> {}]
    /\ UNCHANGED text /\ UNCHANGED LoaderVars

NextExtract ==
    \/ ExtractDeities
    \/ ExtractScriptures
    \/ ExtractStyles
    \/ ExtractFestivals

ExtractSpec == InitExtract /\ [][NextExtract]_vars

(***************************************************************************)
(* Properties.                                                             *)
(***************************************************************************)
NodesOf(label) == {n \in store.nodes : n.label = label}

\* load_temple_data has returned without having caught an exception.
Loaded ==
    /\ pc \in {"sample_queries", "close", "done"}
    /\ raisedBy = "none"
    /\ data.kind = "mapping"

\* The Temple node created from the record at position at.
TempleOf(at) == {n \in NodesOf("Temple") : n.rec = at}

\* The statements derived from the i-th record (in any of their orders).
DerivedFrom(i) == Range(CHOOSE sts \in statements[i] : TRUE)

DeitiesOf(i) == {st.name : st \in {st \in DerivedFrom(i) : st.label = "Deity"}}

\* C1: running the load twice in succession on the same document leaves,
\* after the second run, as many nodes of each type and as many edges as
\* after the first run (no store operation having failed for a passing
\* reason in between).
C1_SameCountsAfterSecondRun ==
    \A r \in 2..Len(counts) : faults = 0 => counts[r] = counts[r - 1]

C1_Witness ==
    /\ Len(counts) = 2
    /\ faults = 0
    /\ counts[2].nodes["Temple"] = 2
    /\ counts[2].edges >= 2
    /\ counts[2] = counts[1]

\* C2: in every state the store holds at most one node per (label, name)
\* for the entity labels and at most one edge of a type between a Temple
\* node and an entity node; after a load of two temples of different states
\* whose texts mention the same deity there is exactly one Deity node of
\* that name, with exactly two incoming DEDICATED_TO edges.
TwoRegionsLoaded ==
    /\ Loaded
    /\ Len(Records(data)) = 2
    /\ Records(data)[1].at[1] # Records(data)[2].at[1]

InDegree(n, type) ==
    SumN({e \in store.edges : e.dst = n.id /\ e.type = type})

C2_OneNodeOneEdge ==
    /\ \A n, m \in store.nodes :
          (n.label \in EntityLabels /\ n.label = m.label /\ n.props.name = m.props.name)
              => n = m
    /\ \A e, f \in store.edges :
          (e.src = f.src /\ e.type = f.type /\ e.dst = f.dst) => (e = f /\ e.n = 1)
    /\ TwoRegionsLoaded =>
          \A d \in DeitiesOf(1) \cap DeitiesOf(2) :
              /\ Cardinality({n \in NodesOf("Deity") : n.props.name = d}) = 1
              /\ \A n \in NodesOf("Deity") :
                    n.props.name = d => InDegree(n, "DEDICATED_TO") = 2

C2_Witness ==
    /\ TwoRegionsLoaded
    /\ S_Vishnu \in DeitiesOf(1) \cap DeitiesOf(2)
    /\ Get(Records(data)[1].rec, "name") # Get(Records(data)[2].rec, "name")
    /\ \E n \in NodesOf("Deity") :
          n.props.name = S_Vishnu /\ InDegree(n, "DEDICATED_TO") = 2

\* C3: when the load of a document (a mapping from region names to temple
\* records, whatever their names) finishes, there are as many Temple nodes
\* as the document has temple records.
C3_OneTemplePerRecord ==
    (pc = "sample_queries" /\ data.kind = "mapping" /\ faults = 0)
        => Cardinality(NodesOf("Temple")) = Len(Records(data))

\* C4: after an exception during the load no store operation is issued
\* other than closing the connection.
C4_NoOperationAfterFailedLoad == afterFail = 0

\* C5: once the connection is acquired it is eventually closed, exactly
\* once, and no store operation follows the close.
Acquired == pc \notin {"main", "exit", "done", "idle"}

C5_ClosedExactlyOnce ==
    /\ [](closeCount <= 1 /\ afterClose = 0)
    /\ (Acquired ~> (pc = "done" /\ closeCount = 1))

C5_Witness == pc = "done" /\ closeCount = 1 /\ faults > 0 /\ raisedBy # "none"

\* C6: while the record of a temple whose state field is absent, null or
\* empty is upserted, the Temple node is created with an empty state, no
\* State node and no LOCATED_IN edge is created, and when the upsert is
\* through, the entity nodes derived from the record exist, each with an
\* edge from that Temple node.
RawRecord(i) == Records(file.doc)[i].rec

EmptyState(raw) ==
    \/ "state" \notin DOMAIN raw
    \/ raw["state"] = Null
    \/ raw["state"] = Str(<<>>)

LocatedIn == {e \in store.edges : e.type = "LOCATED_IN"}

EntitiesUpserted(i) ==
    \A st \in DerivedFrom(i) :
        \E t \in TempleOf(Records(data)[i].at) :
            \E x \in NodesOf(st.label) :
                /\ x.props.name = st.name
                /\ \E e \in store.edges : e.src = t.id /\ e.type = st.type /\ e.dst = x.id

C6_NoRegionForEmptyState ==
    [][(pc \in {"create", "relationships"} /\ EmptyState(RawRecord(cur))) =>
          /\ NodesOf("State")' = NodesOf("State")
          /\ LocatedIn' = LocatedIn
          /\ (pc = "create" /\ raisedBy' = "none") =>
                \E t \in TempleOf(Records(data)[cur].at)' : t.props.state = <<>>
          /\ pc' = "temples" => EntitiesUpserted(cur)']_vars

C6_Witness ==
    /\ pc = "temples"
    /\ cur >= 1
    /\ EmptyState(RawRecord(cur))
    /\ DerivedFrom(cur) # {}
    /\ EntitiesUpserted(cur)
    /\ \A t \in TempleOf(Records(data)[cur].at) : t.props.state = <<>>
    /\ NodesOf("State") = {}

\* C7: a failing constraint declaration is not raised: the six declarations
\* are all attempted, and the load goes on to upsert every temple record.
C7_ConstraintFailureNotFatal ==
    constraintFailed =>
        /\ raisedBy # "constraint"
        /\ pc # "constraints" => attempted = NumConstraints
        /\ Loaded => \A i \in DOMAIN Records(data) : TempleOf(Records(data)[i].at) # {}

C7_Witness ==
    /\ constraintFailed
    /\ Loaded
    /\ Len(Records(data)) = 2
    /\ \A i \in DOMAIN Records(data) : TempleOf(Records(data)[i].at) # {}

\* C8: every name the four patterns of extract_deities contribute is the
\* title-cased form of a span of the text in which every word begins with
\* an upper-case letter.
CapitalizedSpan(t, i, j) ==
    /\ t[i] \in UpperSet
    /\ t[j] \in LetterSet
    /\ \A m \in i..j : t[m] \in LetterSet \cup {" "}
    /\ \A m \in (i + 1)..j : (t[m] \in LetterSet /\ t[m - 1] = " ") => t[m] \in UpperSet

C8_CapitalizedPhrasesOnly ==
    out.kind = "deities" =>
        \A n \in out.patterns :
            \E i \in DOMAIN text : \E j \in i..Len(text) :
                CapitalizedSpan(text, i, j) /\ Title(SubSeq(text, i, j)) = n

\* C9: after a load that completes, the edges out of every Temple node are
\* exactly those derived from the record the node was created from.
EdgesFrom(t) ==
    {[type |-> e.type,
      label |-> (CHOOSE x \in store.nodes : x.id = e.dst).label,
      name |-> (CHOOSE x \in store.nodes : x.id = e.dst).props.name] :
        e \in {e \in store.edges : e.src = t.id}}

C9_OnlyOwnEdges ==
    Loaded =>
        \A i \in DOMAIN Records(data) :
            \A t \in TempleOf(Records(data)[i].at) :
                EdgesFrom(t) = {[type |-> st.type, label |-> st.label, name |-> st.name] :
                                  st \in DerivedFrom(i)}

\* C10: if the input file cannot be opened or parsed, the store is left as
\* it was when the execution began.
C10_StoreUnchangedOnReadFailure ==
    file.kind \in {"missing", "malformed"} => store = store0

C10_Witness ==
    /\ file.kind = "malformed"
    /\ pc = "done"
    /\ raisedBy = "read"
    /\ store = LeftoverGraph

====
